---------------------------- MODULE Spec2Model ----------------------------
(***************************************************************************)
(* Connection routing and bridge building of the diagram editor            *)
(* (web-frontend/src/utils/routing.ts).                                    *)
(*                                                                         *)
(* Canvas coordinates are JavaScript numbers.  Every coordinate the model   *)
(* meets is an even integer and every segment it builds is axis-aligned,   *)
(* so the arithmetic of the engine (halving, normalising, t * len) is      *)
(* exact in the integers and is computed as the code computes it.          *)
(***************************************************************************)
EXTENDS Integers, Sequences, FiniteSets

\* ------------------------------------------------------------------ bounds
\* Largest number of connections handed to one routing pass.
MaxConns == 3

\* ------------------------------------------------------ program constants
BRIDGE_SIZE == 12
BRIDGE_HEIGHT == 12
STANDOFF_DIST == 20
\* buffer = 0.001 of getIntersectionT, kept as the denominator of 1/1000.
BufferDen == 1000
\* arrowOffset = 4.5, kept as twice its value (endPoint is held doubled).
ArrowOffset2 == 9

\* ------------------------------------------------------- geometry helpers
Pt(px, py) == [x |-> px, y |-> py]

Abs(n) == IF n < 0 THEN 0 - n ELSE n
Min2(a, b) == IF a < b THEN a ELSE b
Max2(a, b) == IF a > b THEN a ELSE b

sub(a, b) == Pt(a.x - b.x, a.y - b.y)
add(a, b) == Pt(a.x + b.x, a.y + b.y)
mult(v, s) == Pt(v.x * s, v.y * s)

\* Math.sqrt on the perfect squares the model meets.
Sqrt(n) == CHOOSE k \in 0..n : k * k = n

\* sqrt(x*x + y*y); for a vector along an axis this is |x| + |y| exactly.
len(v) ==
  IF v.x = 0 THEN Abs(v.y)
  ELSE IF v.y = 0 THEN Abs(v.x)
  ELSE Sqrt(v.x * v.x + v.y * v.y)

normalize(v) ==
  LET l == len(v)
  IN IF l = 0 THEN Pt(0, 0) ELSE Pt(v.x \div l, v.y \div l)

\* rotated 90 degrees: (-y, x)
perp(v) == Pt(0 - v.y, v.x)

\* ----------------------------------------------------------- aspect fit
\* layout.ts is not part of the sources at hand: the centred, non-cropping
\* fit of the natural aspect ratio into the allotted box (letterboxing).
calculateAspectFit(width, height, naturalWidth, naturalHeight) ==
  IF naturalWidth * height > width * naturalHeight
  THEN LET h == (width * naturalHeight) \div naturalWidth
       IN [x |-> 0, y |-> (height - h) \div 2, width |-> width, height |-> h]
  ELSE LET w == (height * naturalWidth) \div naturalHeight
       IN [x |-> (width - w) \div 2, y |-> 0, width |-> w, height |-> height]

\* ------------------------------------------------------------ grips
\* Outcome of getGripPosition: "null", a thrown TypeError, or a point.
\* gripIndex is 0-based as in the code; item.grips is a 1-based sequence.
getGripOutcome(item, gripIndex) ==
  IF ~item.hasGrips \/ gripIndex >= Len(item.grips) THEN "null"
  ELSE IF gripIndex < 0 THEN "throws"   \* grips[-1] is undefined; grip.x throws
  ELSE "point"

getGripPosition(item, gripIndex) ==
  LET r == calculateAspectFit(item.width, item.height,
                              item.naturalWidth, item.naturalHeight)
      grip == item.grips[gripIndex + 1]
  IN Pt((item.x + r.x) + (grip.x * r.width) \div 100,
        (item.y + r.y) + ((100 - grip.y) * r.height) \div 100)

getItemRects(its) ==
  [k \in 1..Len(its) |->
     LET r == calculateAspectFit(its[k].width, its[k].height,
                                 its[k].naturalWidth, its[k].naturalHeight)
     IN [x |-> its[k].x + r.x, y |-> its[k].y + r.y,
         width |-> r.width, height |-> r.height]]

segmentHitsRect(p1, p2, r) ==
  LET minX == Min2(p1.x, p2.x)
      maxX == Max2(p1.x, p2.x)
      minY == Min2(p1.y, p2.y)
      maxY == Max2(p1.y, p2.y)
  IN ~(maxX < r.x \/ minX > r.x + r.width \/ maxY < r.y \/ minY > r.y + r.height)

\* ------------------------------------------------------------ smartRoute
candidates(start, end) ==
  << << Pt(end.x, start.y) >>,
     << Pt(start.x, end.y) >>,
     << Pt((start.x + end.x) \div 2, start.y), Pt((start.x + end.x) \div 2, end.y) >>,
     << Pt(start.x, (start.y + end.y) \div 2), Pt(end.x, (start.y + end.y) \div 2) >> >>

hitsObstacle(start, end, pts, obstacles) ==
  LET full == <<start>> \o pts \o <<end>>
  IN \E i \in 1..(Len(full) - 1) : \E k \in 1..Len(obstacles) :
        segmentHitsRect(full[i], full[i + 1], obstacles[k])

\* Mutation: the LAST clean candidate wins.
smartRoute_LastClean(start, end, its) ==
  LET obstacles == getItemRects(its)
      cs == candidates(start, end)
      clean == {c \in 1..Len(cs) : ~hitsObstacle(start, end, cs[c], obstacles)}
  IN IF clean = {} THEN cs[1]
     ELSE cs[CHOOSE c \in clean : \A d \in clean : c >= d]

smartRoute(start, end, its) ==
  LET obstacles == getItemRects(its)
      cs == candidates(start, end)
      clean == {c \in 1..Len(cs) : ~hitsObstacle(start, end, cs[c], obstacles)}
  IN IF clean = {} THEN cs[1]
     ELSE cs[CHOOSE c \in clean : \A d \in clean : c <= d]


\* ------------------------------------------------------ segments, crossings
\* LineSegment {p1, p2, lineId, dir, len}
Segment(p1, p2, lineId) ==
  [p1 |-> p1, p2 |-> p2, lineId |-> lineId,
   dir |-> normalize(sub(p2, p1)), len |-> len(sub(p2, p1))]

\* The pieces of getIntersectionT: t = tNum / rXs and u = uNum / rXs.
CrossRS(seg1, seg2) ==
  LET r == sub(seg1.p2, seg1.p1)
      s == sub(seg2.p2, seg2.p1)
  IN r.x * s.y - r.y * s.x

CrossT(seg1, seg2) ==
  LET s == sub(seg2.p2, seg2.p1)
      qp == sub(seg2.p1, seg1.p1)
  IN qp.x * s.y - qp.y * s.x

CrossU(seg1, seg2) ==
  LET r == sub(seg1.p2, seg1.p1)
      qp == sub(seg2.p1, seg1.p1)
  IN qp.x * r.y - qp.y * r.x

\* Mutation: the ends count, 0 <= n/d <= 1.
StrictlyInside_Inclusive(n, d) ==
  LET sn == IF d < 0 THEN 0 - n ELSE n
      sd == Abs(d)
  IN sn >= 0 /\ sn <= sd

\* buffer < n/d < 1 - buffer, for d # 0, without dividing.
StrictlyInside(n, d) ==
  LET sn == IF d < 0 THEN 0 - n ELSE n
      sd == Abs(d)
  IN BufferDen * sn > sd /\ BufferDen * sn < (BufferDen - 1) * sd

\* Whether getIntersectionT returns a number (not null).
Intersects(seg1, seg2) ==
  LET rXs == CrossRS(seg1, seg2)
  IN /\ rXs # 0                        \* |rXs| < 1e-5 on integers
     /\ StrictlyInside(CrossT(seg1, seg2), rXs)
     /\ StrictlyInside(CrossU(seg1, seg2), rXs)

\* t * seg1.len, the distance of the crossing along seg1.
getIntersectionT(seg1, seg2) ==
  LET rXs == CrossRS(seg1, seg2)
      n == CrossT(seg1, seg2)
      sn == IF rXs < 0 THEN 0 - n ELSE n
  IN (sn * seg1.len) \div Abs(rXs)

\* ------------------------------------------------------------ standoff
\* Mutation: the comparisons run in the opposite order, so ties go to the
\* bottom first and to the left last.
getClosestSide_BottomFirst(g) ==
  LET distLeft == g.x
      distRight == 100 - g.x
      distTop == 100 - g.y
      distBottom == g.y
      min == Min2(Min2(distLeft, distRight), Min2(distTop, distBottom))
  IN IF min = distBottom THEN "bottom"
     ELSE IF min = distTop THEN "top"
     ELSE IF min = distRight THEN "right"
     ELSE "left"

getClosestSide(g) ==
  LET distLeft == g.x
      distRight == 100 - g.x
      distTop == 100 - g.y
      distBottom == g.y
      min == Min2(Min2(distLeft, distRight), Min2(distTop, distBottom))
  IN IF min = distLeft THEN "left"
     ELSE IF min = distRight THEN "right"
     ELSE IF min = distTop THEN "top"
     ELSE "bottom"

\* Mutation: the top and bottom stubs run sideways.
getStandoff_Sideways(p, grip) ==
  LET side == getClosestSide(grip)
  IN IF side = "left" THEN Pt(p.x - STANDOFF_DIST, p.y)
     ELSE IF side = "right" THEN Pt(p.x + STANDOFF_DIST, p.y)
     ELSE IF side = "top" THEN Pt(p.x - STANDOFF_DIST, p.y)
     ELSE Pt(p.x + STANDOFF_DIST, p.y)

getStandoff(p, grip) ==
  LET side == getClosestSide(grip)
  IN IF side = "left" THEN Pt(p.x - STANDOFF_DIST, p.y)
     ELSE IF side = "right" THEN Pt(p.x + STANDOFF_DIST, p.y)
     ELSE IF side = "top" THEN Pt(p.x, p.y - STANDOFF_DIST)
     ELSE Pt(p.x, p.y + STANDOFF_DIST)

\* ------------------------------------------ pass 1: geometry of one line
\* items.find((i) => i.id === id): index of the first match, 0 for undefined.
FindItem(its, id) ==
  IF \E k \in 1..Len(its) : its[k].id = id
  THEN CHOOSE k \in 1..Len(its) :
         its[k].id = id /\ \A j \in 1..(k - 1) : its[j].id # id
  ELSE 0

\* What the loop body of pass 1 does with conn: "skip" (continue), "throws"
\* (a TypeError leaves the function) or "line" (a raw line is pushed).
ConnOutcome(conn, its) ==
  LET s == FindItem(its, conn.sourceItemId)
      t == FindItem(its, conn.targetItemId)
  IN IF s = 0 \/ t = 0 THEN "skip"
     ELSE IF getGripOutcome(its[s], conn.sourceGripIndex) = "throws" THEN "throws"
     ELSE IF getGripOutcome(its[t], conn.targetGripIndex) = "throws" THEN "throws"
     ELSE IF getGripOutcome(its[s], conn.sourceGripIndex) = "null" THEN "skip"
     ELSE IF getGripOutcome(its[t], conn.targetGripIndex) = "null" THEN "skip"
     ELSE "line"

\* [start, startStandoff, end, endStandoff] of a connection that resolves.
ConnEnds(conn, its) ==
  LET source == its[FindItem(its, conn.sourceItemId)]
      target == its[FindItem(its, conn.targetItemId)]
      start == getGripPosition(source, conn.sourceGripIndex)
      end == getGripPosition(target, conn.targetGripIndex)
  IN [start |-> start,
      startStandoff |-> getStandoff(start, source.grips[conn.sourceGripIndex + 1]),
      end |-> end,
      endStandoff |-> getStandoff(end, target.grips[conn.targetGripIndex + 1])]

\* Mutation: user waypoints are ignored, the router always runs.
ConnBends_AlwaysRoutes(conn, its) ==
  LET e == ConnEnds(conn, its)
  IN smartRoute(e.startStandoff, e.endStandoff, its)

\* conn.waypoints is the empty sequence when absent or empty.
ConnBends(conn, its) ==
  LET e == ConnEnds(conn, its)
  IN IF Len(conn.waypoints) > 0 THEN conn.waypoints
     ELSE smartRoute(e.startStandoff, e.endStandoff, its)

ConnPoints(conn, its, bends) ==
  LET e == ConnEnds(conn, its)
  IN <<e.start, e.startStandoff>> \o bends \o <<e.endStandoff, e.end>>

\* Mutation: pairs of equal points make a segment too.
RECURSIVE SegmentsFrom_KeepsEmpty(_, _, _)
SegmentsFrom_KeepsEmpty(points, lineId, i) ==
  IF i >= Len(points) THEN <<>>
  ELSE <<Segment(points[i], points[i + 1], lineId)>>
       \o SegmentsFrom_KeepsEmpty(points, lineId, i + 1)

\* Consecutive point pairs of positive length, from pair i on.
RECURSIVE SegmentsFrom(_, _, _)
SegmentsFrom(points, lineId, i) ==
  IF i >= Len(points) THEN <<>>
  ELSE (IF len(sub(points[i + 1], points[i])) > 0
        THEN <<Segment(points[i], points[i + 1], lineId)>>
        ELSE <<>>) \o SegmentsFrom(points, lineId, i + 1)

RawLine(conn, its, bends) ==
  [id |-> conn.id, segments |-> SegmentsFrom(ConnPoints(conn, its, bends), conn.id, 1)]

\* rawLines.flatMap((r) => r.segments)
RECURSIVE FlatSegments(_, _)
FlatSegments(lines, k) ==
  IF k > Len(lines) THEN <<>>
  ELSE lines[k].segments \o FlatSegments(lines, k + 1)

\* --------------------------------------------- pass 2: crossings, bridges
\* Mutation: the test for the same line is missing.
scans_EqualToo(seg, otherSeg) == ~(seg.lineId < otherSeg.lineId)

\* Mutation: the line of LOWER id jumps.
scans_LowerJumps(seg, otherSeg) ==
  ~(otherSeg.lineId = seg.lineId) /\ ~(seg.lineId > otherSeg.lineId)

\* Whether seg looks for a crossing with otherSeg: neither `continue` is
\* taken (same line; seg's line has the lower id).
scans(seg, otherSeg) ==
  ~(otherSeg.lineId = seg.lineId) /\ ~(seg.lineId < otherSeg.lineId)

\* Mutation: the scan stops at the first crossing it finds.
RECURSIVE ScanIntersections_FirstOnly(_, _, _)
ScanIntersections_FirstOnly(seg, all, k) ==
  IF k > Len(all) THEN <<>>
  ELSE IF scans(seg, all[k]) /\ Intersects(seg, all[k])
       THEN <<[t |-> getIntersectionT(seg, all[k]), otherId |-> all[k].lineId]>>
       ELSE ScanIntersections_FirstOnly(seg, all, k + 1)

\* The crossings of seg in scan order: other lines of lower id only.
RECURSIVE ScanIntersections(_, _, _)
ScanIntersections(seg, all, k) ==
  IF k > Len(all) THEN <<>>
  ELSE (IF ~scans(seg, all[k]) THEN <<>>
        ELSE IF Intersects(seg, all[k])
             THEN <<[t |-> getIntersectionT(seg, all[k]), otherId |-> all[k].lineId]>>
             ELSE <<>>) \o ScanIntersections(seg, all, k + 1)

\* intersections.sort((a, b) => a.t - b.t): stable, by insertion.
RECURSIVE InsertByT(_, _)
InsertByT(sorted, e) ==
  IF sorted = <<>> THEN <<e>>
  ELSE IF sorted[Len(sorted)].t <= e.t THEN Append(sorted, e)
  ELSE Append(InsertByT(SubSeq(sorted, 1, Len(sorted) - 1), e), sorted[Len(sorted)])

RECURSIVE SortByT(_, _)
SortByT(xs, k) ==
  IF k = 0 THEN <<>> ELSE InsertByT(SortByT(xs, k - 1), xs[k])

\* Mutation: the bridge start forgets where the last bridge ended.
bridgeStartT_IgnoresCurrent(currentT, centerT) == centerT - BRIDGE_SIZE

\* One iteration of the bridge loop at crossing inter with currentT given.
bridgeStartT(currentT, centerT) == Max2(currentT, centerT - BRIDGE_SIZE)
\* Mutation: the bridge end is taken on the near side of the crossing.
bridgeEndT_SignSlip(seg, centerT) == Min2(seg.len, centerT - BRIDGE_SIZE)

bridgeEndT(seg, centerT) == Min2(seg.len, centerT + BRIDGE_SIZE)

\* The iterations of the bridge loop over the sorted crossings, from the
\* k-th on: each with its centerT, startT, endT and whether it was drawn.
RECURSIVE BridgeLoop(_, _, _, _)
BridgeLoop(seg, inters, k, currentT) ==
  IF k > Len(inters) THEN <<>>
  ELSE LET centerT == inters[k].t
           startT == bridgeStartT(currentT, centerT)
           endT == bridgeEndT(seg, centerT)
           drawn == ~(startT >= endT)
       IN <<[centerT |-> centerT, startT |-> startT, endT |-> endT,
             otherId |-> inters[k].otherId, drawn |-> drawn]>>
          \o BridgeLoop(seg, inters, k + 1, IF drawn THEN endT ELSE currentT)

SegmentBridges(seg, all) ==
  LET found == ScanIntersections(seg, all, 1)
  IN BridgeLoop(seg, SortByT(found, Len(found)), 1, 0)

\* Path commands as tuples: <<"M", x, y>>, <<"L", x, y>>, <<"Q", cx, cy, x, y>>.
RECURSIVE BridgeCommands(_, _, _)
BridgeCommands(seg, bs, k) ==
  IF k > Len(bs) THEN <<>>
  ELSE (IF bs[k].drawn
        THEN LET bridgeStartPos == add(seg.p1, mult(seg.dir, bs[k].startT))
                 bridgeEndPos == add(seg.p1, mult(seg.dir, bs[k].endT))
                 centerPos == add(seg.p1, mult(seg.dir, bs[k].centerT))
                 controlPos == add(centerPos, mult(perp(seg.dir), BRIDGE_HEIGHT * 2))
             IN << <<"L", bridgeStartPos.x, bridgeStartPos.y>>,
                   <<"Q", controlPos.x, controlPos.y, bridgeEndPos.x, bridgeEndPos.y>> >>
        ELSE <<>>) \o BridgeCommands(seg, bs, k + 1)

\* The commands of one segment: its bridges, then the line to its end.
SegmentCommands(seg, bridges) ==
  BridgeCommands(seg, bridges, 1) \o << <<"L", seg.p2.x, seg.p2.y>> >>

\* The bridge-loop iterations of every segment of a line.
LineBridges(line, all) ==
  [k \in 1..Len(line.segments) |-> SegmentBridges(line.segments[k], all)]

RECURSIVE LineCommands(_, _, _)
LineCommands(segs, bridges, k) ==
  IF k > Len(segs) THEN <<>>
  ELSE SegmentCommands(segs[k], bridges[k]) \o LineCommands(segs, bridges, k + 1)

\* pathData, given the bridge-loop iterations of the line's segments.
pathDataWith(line, bridges) ==
  (IF Len(line.segments) > 0
   THEN << <<"M", line.segments[1].p1.x, line.segments[1].p1.y>> >>
   ELSE <<>>) \o LineCommands(line.segments, bridges, 1)

pathData(line, all) == pathDataWith(line, LineBridges(line, all))

\* Math.atan2(dir.y, dir.x) * (180 / Math.PI) for a unit vector along an axis.
Atan2Deg(dir) ==
  IF dir.y = 0 THEN (IF dir.x < 0 THEN 180 ELSE 0)
  ELSE IF dir.y > 0 THEN 90 ELSE 0 - 90

\* PathMetadata.  endPoint is held doubled (arrowOffset is 4.5); a line
\* without segments has no endPoint and arrowAngle 0.
PathMetadata(line, path, waypoints) ==
  LET n == Len(line.segments)
      lastSeg == line.segments[n]
  IN [pathData |-> path,
      hasEndPoint |-> n > 0,
      endPoint2 |-> IF n > 0
                    THEN Pt(2 * lastSeg.p2.x - lastSeg.dir.x * ArrowOffset2,
                            2 * lastSeg.p2.y - lastSeg.dir.y * ArrowOffset2)
                    ELSE Pt(0, 0),
      arrowAngle |-> IF n > 0 THEN Atan2Deg(lastSeg.dir) + 90 ELSE 0,
      waypoints |-> waypoints]

\* ------------------------------------------- a whole pass, as a function
\* Pass 1 over a list that makes no connection throw: the raw lines of the
\* connections from the k-th on.
RECURSIVE rawLinesOf(_, _, _)
rawLinesOf(conns, its, k) ==
  IF k > Len(conns) THEN <<>>
  ELSE (IF ConnOutcome(conns[k], its) = "line"
        THEN <<RawLine(conns[k], its, ConnBends(conns[k], its))>>
        ELSE <<>>) \o rawLinesOf(conns, its, k + 1)

\* finalPaths[id].pathData of the pass: for each id the path of the last raw
\* line that carries it.
pathDataOf(conns, its) ==
  LET lines == rawLinesOf(conns, its, 1)
      all == FlatSegments(lines, 1)
      last(id) == CHOOSE k \in 1..Len(lines) :
                    /\ lines[k].id = id
                    /\ \A j \in (k + 1)..Len(lines) : lines[j].id # id
  IN [id \in {lines[k].id : k \in 1..Len(lines)} |-> pathData(lines[last(id)], all)]

\* ------------------------------------------------------------- inputs
Grip(gx, gy) == [x |-> gx, y |-> gy]

Item(id, x, y, width, height, naturalWidth, naturalHeight, hasGrips, grips) ==
  [id |-> id, x |-> x, y |-> y, width |-> width, height |-> height,
   naturalWidth |-> naturalWidth, naturalHeight |-> naturalHeight,
   hasGrips |-> hasGrips, grips |-> grips]

\* Two boxes left and right, joined by a horizontal wire at y = 120.
ItemL == Item(1, 0, 100, 40, 40, 40, 40, TRUE, <<Grip(100, 50), Grip(50, 100)>>)
ItemR == Item(2, 300, 100, 40, 40, 40, 40, TRUE, <<Grip(0, 50), Grip(50, 0)>>)
\* Two wide boxes above and below, joined by vertical wires at x = 102 and
\* x = 110; the lower box has a third grip at x = 170.
ItemT == Item(3, 2, 0, 400, 40, 400, 40, TRUE, <<Grip(25, 0), Grip(27, 0)>>)
ItemB == Item(4, 2, 200, 400, 40, 400, 40, TRUE,
              <<Grip(25, 100), Grip(27, 100), Grip(42, 100)>>)
\* A letterboxed box without grips in the middle of the horizontal wire.
ItemM == Item(5, 150, 100, 40, 40, 80, 40, FALSE, <<>>)
\* Two small boxes with an empty grips list, in the way of doglegs.
ItemP == Item(6, 140, 50, 20, 20, 20, 20, TRUE, <<>>)
ItemQ == Item(7, 120, 170, 20, 20, 20, 20, TRUE, <<>>)

\* Item 5 is on the canvas in the first scene only.
Scenes == { <<ItemL, ItemR, ItemT, ItemB, ItemM>>,
            <<ItemL, ItemR, ItemT, ItemB, ItemP, ItemQ>> }

Shape(sourceItemId, sourceGripIndex, targetItemId, targetGripIndex, waypoints) ==
  [sourceItemId |-> sourceItemId, sourceGripIndex |-> sourceGripIndex,
   targetItemId |-> targetItemId, targetGripIndex |-> targetGripIndex,
   waypoints |-> waypoints]

Shapes ==
  << Shape(1, 0, 2, 0, <<>>),                 \* horizontal wire, y = 120
     Shape(3, 0, 4, 0, <<>>),                 \* vertical wire, x = 102
     Shape(3, 1, 4, 1, <<>>),                 \* vertical wire, x = 110
     Shape(1, 1, 2, 1, <<>>),                 \* top of L to bottom of R
     Shape(3, 0, 4, 2, <<>>),                 \* T at x = 102 to B at x = 170
     Shape(1, 0, 2, 0, <<Pt(60, 110), Pt(112, 110), Pt(112, 120)>>),  \* user waypoints
     Shape(5, 0, 2, 0, <<>>),                 \* item 5: without grips, or missing
     Shape(1, 2, 2, 0, <<>>),                 \* grip index = grips.length
     Shape(1, 0 - 1, 2, 0, <<>>) >>           \* negative grip index

ConnIds == {1, 2, 3}

Connection(id, shape) ==
  [id |-> id, sourceItemId |-> shape.sourceItemId,
   sourceGripIndex |-> shape.sourceGripIndex,
   targetItemId |-> shape.targetItemId,
   targetGripIndex |-> shape.targetGripIndex,
   waypoints |-> shape.waypoints]

\* Connection lists of at most MaxConns connections: distinct shapes in the
\* order of shapes, each with any id (ids may repeat).
ConnListsOf(shapes) ==
  UNION { { [k \in 1..n |-> Connection(ids[k], shapes[pick[k]])] :
              ids \in [1..n -> ConnIds],
              pick \in {f \in [1..n -> 1..Len(shapes)] :
                          \A k \in 1..(n - 1) : f[k] < f[k + 1]} } :
          n \in 0..MaxConns }

ConnLists == ConnListsOf(Shapes)

\* Hand-drawn wires.  The upper and lower box have one grip each, at
\* x = 62; the wire between them runs down x = 62 from y = 40 to y = 200.
ItemTW == Item(3, 2, 0, 400, 40, 400, 40, TRUE, <<Grip(15, 0)>>)
ItemBW == Item(4, 2, 200, 400, 40, 400, 40, TRUE, <<Grip(15, 100)>>)

WaypointScene == <<ItemL, ItemR, ItemTW, ItemBW>>

WaypointShapes ==
  << \* a row 3000 long at y = 150, from x = 60: x = 62 is 2/3000 of the way
     Shape(1, 0, 2, 0, <<Pt(60, 150), Pt(3060, 150), Pt(3060, 100), Pt(280, 100)>>),
     \* the vertical wire at x = 62
     Shape(3, 0, 4, 0, <<>>),
     \* down x = 60 to the corner (60, 150), along the row to x = 240, off it
     Shape(1, 1, 2, 1, <<Pt(60, 80), Pt(60, 150), Pt(240, 150), Pt(240, 160)>>),
     \* a loop: the drop at x = 80 crosses the wire's own run along y = 120
     Shape(1, 0, 2, 0, <<Pt(100, 120), Pt(100, 90), Pt(80, 90), Pt(80, 170), Pt(280, 170)>>),
     Shape(1, 2, 2, 0, <<>>),                 \* grip index = grips.length
     Shape(1, 0 - 1, 2, 0, <<>>) >>           \* negative grip index

\* Inputs for the grip functions: a 200 x 200 box with one grip anywhere on
\* the percent grid, wired to a fixed box far to the right; the source grip
\* index is 0, or - 1, or grips.length.
GripCoords == 0..100

GripBox(g) == Item(1, 200, 200, 200, 200, 200, 200, TRUE, <<g>>)
FarBox == Item(2, 1000, 200, 200, 200, 200, 200, TRUE, <<Grip(0, 50)>>)

GripScenes == { <<GripBox(Grip(gx, gy)), FarBox>> : gx \in GripCoords, gy \in GripCoords }

GripConnLists ==
  { <<Connection(1, Shape(1, i, 2, 0, <<>>))>> : i \in {0 - 1, 0, 1} }

\* -------------------------------------------------------- state machine
VARIABLES
  items,                \* CanvasItem[] handed to the pass
  connections,          \* Connection[] handed to the pass
  pc,                   \* "build", "draw", "done" (returned), "threw"
  ci,                   \* index of the connection pass 1 is at
  rawLines,             \* {id, segments}[]
  connectionWaypoints,  \* Record<number, Point[]>
  allSegments,          \* flattened segments
  li,                   \* index of the line pass 2 is at
  drawnLines,           \* per line of pass 2: its pathData and bridge-loop iterations
  finalPaths            \* Record<number, PathMetadata>

vars == <<items, connections, pc, ci, rawLines, connectionWaypoints,
          allSegments, li, drawnLines, finalPaths>>

\* An empty Record<number, _>.
EmptyRecord == [id \in {} |-> <<>>]

Put(rec, id, v) == [k \in (DOMAIN rec) \cup {id} |-> IF k = id THEN v ELSE rec[k]]

Init ==
  /\ items \in Scenes
  /\ connections \in ConnLists
  /\ pc = "build"
  /\ ci = 1
  /\ rawLines = <<>>
  /\ connectionWaypoints = EmptyRecord
  /\ allSegments = <<>>
  /\ li = 1
  /\ drawnLines = <<>>
  /\ finalPaths = EmptyRecord

\* Pass 1, `continue`: an item is missing or a grip position is null.
SkipConnection ==
  /\ pc = "build" /\ ci <= Len(connections)
  /\ ConnOutcome(connections[ci], items) = "skip"
  /\ ci' = ci + 1
  /\ UNCHANGED <<items, connections, pc, rawLines, connectionWaypoints,
                 allSegments, li, drawnLines, finalPaths>>

\* Pass 1: getGripPosition throws; the exception leaves the function.
ThrowTypeError ==
  /\ pc = "build" /\ ci <= Len(connections)
  /\ ConnOutcome(connections[ci], items) = "throws"
  /\ pc' = "threw"
  /\ UNCHANGED <<items, connections, ci, rawLines, connectionWaypoints,
                 allSegments, li, drawnLines, finalPaths>>

\* Mutation: the stand-off and the grip are pushed onto the connection's own
\* waypoints array instead of a fresh points array.
BuildLine_PushesIntoWaypoints ==
  /\ pc = "build" /\ ci <= Len(connections)
  /\ ConnOutcome(connections[ci], items) = "line"
  /\ LET bends == ConnBends(connections[ci], items)
         e == ConnEnds(connections[ci], items)
     IN /\ connectionWaypoints' = Put(connectionWaypoints, connections[ci].id, bends)
        /\ rawLines' = Append(rawLines, RawLine(connections[ci], items, bends))
        /\ connections' =
             [connections EXCEPT ![ci].waypoints =
                IF Len(@) > 0 THEN @ \o <<e.endStandoff, e.end>> ELSE @]
  /\ ci' = ci + 1
  /\ UNCHANGED <<items, pc, allSegments, li, drawnLines, finalPaths>>

\* Pass 1: the connection resolves; its bends and raw line are recorded.
BuildLine ==
  /\ pc = "build" /\ ci <= Len(connections)
  /\ ConnOutcome(connections[ci], items) = "line"
  /\ LET bends == ConnBends(connections[ci], items)
     IN /\ connectionWaypoints' = Put(connectionWaypoints, connections[ci].id, bends)
        /\ rawLines' = Append(rawLines, RawLine(connections[ci], items, bends))
  /\ ci' = ci + 1
  /\ UNCHANGED <<items, connections, pc, allSegments, li, drawnLines, finalPaths>>

\* End of pass 1: allSegments = rawLines.flatMap(...).
Flatten ==
  /\ pc = "build" /\ ci > Len(connections)
  /\ allSegments' = FlatSegments(rawLines, 1)
  /\ pc' = "draw"
  /\ UNCHANGED <<items, connections, ci, rawLines, connectionWaypoints,
                 li, drawnLines, finalPaths>>

\* Pass 2: one line's path, arrow and waypoints are stored under its id.
DrawLine ==
  /\ pc = "draw" /\ li <= Len(rawLines)
  /\ LET line == rawLines[li]
         bridges == LineBridges(line, allSegments)
         path == pathDataWith(line, bridges)
     IN /\ finalPaths' =
             Put(finalPaths, line.id,
                 PathMetadata(line, path, connectionWaypoints[line.id]))
        /\ drawnLines' = Append(drawnLines,
                                [id |-> line.id, pathData |-> path, bridges |-> bridges])
  /\ li' = li + 1
  /\ UNCHANGED <<items, connections, pc, ci, rawLines, connectionWaypoints, allSegments>>

\* return finalPaths
Return ==
  /\ pc = "draw" /\ li > Len(rawLines)
  /\ pc' = "done"
  /\ UNCHANGED <<items, connections, ci, rawLines, connectionWaypoints,
                 allSegments, li, drawnLines, finalPaths>>

Next ==
  \/ SkipConnection
  \/ ThrowTypeError
  \/ BuildLine
  \/ Flatten
  \/ DrawLine
  \/ Return

Spec == Init /\ [][Next]_vars

\* The same pass on the hand-drawn wires.
InitWaypoints ==
  /\ items = WaypointScene
  /\ connections \in ConnListsOf(WaypointShapes)
  /\ pc = "build"
  /\ ci = 1
  /\ rawLines = <<>>
  /\ connectionWaypoints = EmptyRecord
  /\ allSegments = <<>>
  /\ li = 1
  /\ drawnLines = <<>>
  /\ finalPaths = EmptyRecord

SpecWaypoints == InitWaypoints /\ [][Next]_vars

\* The same pass on the inputs for the grip functions.
InitGrips ==
  /\ items \in GripScenes
  /\ connections \in GripConnLists
  /\ pc = "build"
  /\ ci = 1
  /\ rawLines = <<>>
  /\ connectionWaypoints = EmptyRecord
  /\ allSegments = <<>>
  /\ li = 1
  /\ drawnLines = <<>>
  /\ finalPaths = EmptyRecord

SpecGrips == InitGrips /\ [][Next]_vars

\* ----------------------------------------------------- geometry of claims
\* Independent of the engine's cross-product test: on axis-aligned
\* segments, a true crossing is a horizontal and a vertical segment whose
\* common point lies strictly inside both, each end kept off by more than
\* the tolerance (0.001 of the segment's length).
IsHorizontal(s) == s.p1.y = s.p2.y
IsVertical(s) == s.p1.x = s.p2.x
Between(v, a, b) == Min2(a, b) <= v /\ v <= Max2(a, b)

\* v lies between a and b, further than |a - b| / BufferDen from both.
StrictlyBetween(v, a, b) ==
  /\ BufferDen * (v - Min2(a, b)) > Max2(a, b) - Min2(a, b)
  /\ BufferDen * (Max2(a, b) - v) > Max2(a, b) - Min2(a, b)

TrulyCross(a, b) ==
  \/ /\ IsHorizontal(a) /\ IsVertical(b)
     /\ StrictlyBetween(b.p1.x, a.p1.x, a.p2.x)
     /\ StrictlyBetween(a.p1.y, b.p1.y, b.p2.y)
  \/ /\ IsVertical(a) /\ IsHorizontal(b)
     /\ StrictlyBetween(a.p1.x, b.p1.x, b.p2.x)
     /\ StrictlyBetween(b.p1.y, a.p1.y, a.p2.y)

CrossingPoint(a, b) ==
  IF IsHorizontal(a) THEN Pt(b.p1.x, a.p1.y) ELSE Pt(a.p1.x, b.p1.y)

\* Distance of point p from the start of segment s, along s.
Along(s, p) == Abs(p.x - s.p1.x) + Abs(p.y - s.p1.y)

\* The Q commands of a path, and whether one spans point p: from the end
\* of the command before it to its own end point.
QCommands(path) == {k \in 2..Len(path) : path[k][1] = "Q"}

QSpans(path, k, p) ==
  /\ Between(p.x, path[k - 1][2], path[k][4])
  /\ Between(p.y, path[k - 1][3], path[k][5])

HasBridgeAt(path, p) == \E k \in QCommands(path) : QSpans(path, k, p)

\* Pairs of drawn lines and of their segments.
LinePairs == {ab \in (1..Len(rawLines)) \X (1..Len(rawLines)) :
                rawLines[ab[1]].id < rawLines[ab[2]].id}

Crossings(a, b) ==
  {ss \in (1..Len(rawLines[a].segments)) \X (1..Len(rawLines[b].segments)) :
     TrulyCross(rawLines[a].segments[ss[1]], rawLines[b].segments[ss[2]])}

\* ---------------------------------------------------------------- C1
\* C1 as stated: of two crossing connections with ids i < j, the path of j
\* has a bridge (a Q command spanning the crossing point) at every
\* crossing, and the path of i has no bridge there.
C1_TieBreakAsStated ==
  pc = "done" =>
    \A ab \in LinePairs : \A ss \in Crossings(ab[1], ab[2]) :
      LET p == CrossingPoint(rawLines[ab[1]].segments[ss[1]],
                             rawLines[ab[2]].segments[ss[2]])
      IN /\ HasBridgeAt(drawnLines[ab[2]].pathData, p)
         /\ ~HasBridgeAt(drawnLines[ab[1]].pathData, p)

\* C1, amended: the path of j has a Q command spanning every crossing point
\* with i, and no bridge of i's path was made for a connection of higher
\* id: a bridge of i that spans the crossing point was made for a crossing
\* of i with a connection of lower id than i.
C1_TieBreak ==
  pc = "done" =>
    \A ab \in LinePairs : \A ss \in Crossings(ab[1], ab[2]) :
      LET sa == rawLines[ab[1]].segments[ss[1]]
          sb == rawLines[ab[2]].segments[ss[2]]
          p == CrossingPoint(sa, sb)
          onA == drawnLines[ab[1]].bridges[ss[1]]
      IN /\ HasBridgeAt(drawnLines[ab[2]].pathData, p)
         /\ \A n \in 1..Len(onA) :
              (onA[n].drawn /\ onA[n].startT <= Along(sa, p) /\ Along(sa, p) <= onA[n].endT)
                => onA[n].otherId < rawLines[ab[1]].id

\* C1 witness: a segment of j crossed twice within the bridge width, the
\* second crossing lying past the end of the first bridge's interval start.
C1_Witness ==
  /\ pc = "done"
  /\ \E ab \in LinePairs : \E ss \in Crossings(ab[1], ab[2]) :
       \E n \in 1..Len(drawnLines[ab[2]].bridges[ss[2]]) :
          LET b == drawnLines[ab[2]].bridges[ss[2]][n]
          IN b.otherId = rawLines[ab[1]].id /\ ~b.drawn

\* ---------------------------------------------------------------- C2
\* C2: every bridge drawn on a segment has startT < centerT < endT, with
\* startT and endT within [0, segment.len].
C2_BridgeContainment ==
  \A l \in 1..Len(drawnLines) : \A k \in 1..Len(drawnLines[l].bridges) :
    \A n \in 1..Len(drawnLines[l].bridges[k]) :
      LET b == drawnLines[l].bridges[k][n]
      IN b.drawn =>
           /\ b.startT < b.centerT /\ b.centerT < b.endT
           /\ 0 <= b.startT /\ b.endT <= rawLines[l].segments[k].len

\* ------------------------------------------- the connection just handled
\* Pass 1 has just pushed the raw line of connection ci - 1.
JustBuilt ==
  /\ pc = "build" /\ ci > 1
  /\ ConnOutcome(connections[ci - 1], items) = "line"

\* The connection has just been routed by smartRoute (it has no waypoints).
JustRouted == JustBuilt /\ Len(connections[ci - 1].waypoints) = 0

LastConn == connections[ci - 1]
LastLine == rawLines[Len(rawLines)]
LastBends == connectionWaypoints[LastConn.id]
LastEnds == ConnEnds(LastConn, items)

\* Whether the route a -> pts -> b overlaps rectangle r, or any of rects.
RouteHits(a, b, pts, r) ==
  LET full == <<a>> \o pts \o <<b>>
  IN \E i \in 1..(Len(full) - 1) : segmentHitsRect(full[i], full[i + 1], r)

Blocked(a, b, pts, rects) == \E k \in 1..Len(rects) : RouteHits(a, b, pts, rects[k])

\* Rectangle r lies on the horizontal line from a to b, between them.
OnStraightLine(a, b, r) ==
  /\ a.y = b.y
  /\ r.y <= a.y /\ a.y <= r.y + r.height
  /\ Min2(a.x, b.x) < r.x /\ r.x + r.width < Max2(a.x, b.x)

\* ---------------------------------------------------------------- C3
\* C3: with both standoffs on one horizontal line and a third item's
\* rectangle on that line between them, the router returns a dogleg
\* (candidate 3 or 4) that stays clear of that item, not candidate 1.
C3_DoglegAroundBlocker ==
  JustRouted =>
    LET a == LastEnds.startStandoff
        b == LastEnds.endStandoff
        cs == candidates(a, b)
        rects == getItemRects(items)
    IN \A k \in 1..Len(items) :
         (/\ k # FindItem(items, LastConn.sourceItemId)
          /\ k # FindItem(items, LastConn.targetItemId)
          /\ OnStraightLine(a, b, rects[k]))
         => /\ LastBends \in {cs[3], cs[4]}
            /\ LastBends # cs[1]
            /\ ~RouteHits(a, b, LastBends, rects[k])

\* ---------------------------------------------------------------- C4
\* Whether a connection's items exist, and whether its grip indices are
\* valid indices of their items' grips.
ItemsExist(conn) ==
  FindItem(items, conn.sourceItemId) # 0 /\ FindItem(items, conn.targetItemId) # 0

ValidGrip(item, gripIndex) ==
  item.hasGrips /\ 0 <= gripIndex /\ gripIndex < Len(item.grips)

GripsValid(conn) ==
  /\ ValidGrip(items[FindItem(items, conn.sourceItemId)], conn.sourceGripIndex)
  /\ ValidGrip(items[FindItem(items, conn.targetItemId)], conn.targetGripIndex)

Resolves(conn) == ItemsExist(conn) /\ GripsValid(conn)

ResolvableIds == {connections[k].id : k \in {j \in 1..Len(connections) : Resolves(connections[j])}}

\* C4: a connection with a grip index outside 0..grips.length-1 (negative
\* ones included), or on an item without grips, raises no exception and is
\* left out; every resolvable connection still gets its entry.
C4_InvalidGripSkipped ==
  (\E k \in 1..Len(connections) :
      ItemsExist(connections[k]) /\ ~GripsValid(connections[k]))
    => /\ pc # "threw"
       /\ pc = "done" => DOMAIN finalPaths = ResolvableIds

\* ---------------------------------------------------------------- C5
\* C5: a connection whose source or target item is missing is left out, the
\* output has one entry for the id of every connection that resolves, and
\* the pass does not fail as a whole.
C5_MissingItemSkipped ==
  (\E k \in 1..Len(connections) : ~ItemsExist(connections[k]))
    => /\ pc # "threw"
       /\ pc = "done" => DOMAIN finalPaths = ResolvableIds

\* ---------------------------------------------------------------- C6
\* C6: the router's result is the first of the four candidates, in their
\* order, none of whose segments overlaps an item rectangle, and candidate 1
\* when all four overlap one; it is never empty, and with no items it is
\* candidate 1.
C6_FirstCleanCandidate ==
  JustRouted =>
    LET a == LastEnds.startStandoff
        b == LastEnds.endStandoff
        cs == candidates(a, b)
        rects == getItemRects(items)
        blocked == [c \in 1..4 |-> Blocked(a, b, cs[c], rects)]
        bends == LastBends
    IN /\ Len(bends) > 0
       /\ \/ \E c \in 1..4 :
               /\ bends = cs[c]
               /\ ~blocked[c]
               /\ \A d \in 1..(c - 1) : blocked[d]
          \/ /\ \A c \in 1..4 : blocked[c]
             /\ bends = cs[1]
       /\ ((\E c \in 1..4 : ~blocked[c]) => ~Blocked(a, b, bends, rects))
       /\ smartRoute(a, b, <<>>) = cs[1]

\* C6 witness: candidates 1, 2 and 3 are blocked and the mid-Y dogleg wins.
C6_Witness ==
  /\ JustRouted
  /\ LET a == LastEnds.startStandoff
         b == LastEnds.endStandoff
         cs == candidates(a, b)
         rects == getItemRects(items)
     IN /\ \A d \in 1..3 : Blocked(a, b, cs[d], rects)
        /\ ~Blocked(a, b, cs[4], rects)
        /\ LastBends = cs[4]
        /\ LastBends # cs[1]

\* ---------------------------------------------------------------- C8
\* All true crossings between drawn lines, as <<a, b, sa, sb>> with the
\* line of index a before the line of index b.
AllCrossings ==
  UNION { { <<ab[1], ab[2], ss[1], ss[2]>> : ss \in Crossings(ab[1], ab[2]) } :
          ab \in {xy \in (1..Len(rawLines)) \X (1..Len(rawLines)) : xy[1] < xy[2]} }

OnlyML(path) == \A k \in 1..Len(path) : path[k][1] \in {"M", "L"}

\* C8: two connections with ids 1 and 2 that cross at exactly one point:
\* the pathData of 2 has exactly one Q command, spanning the crossing
\* point, and the pathData of 1 has only M and L commands.
C8_OneCrossing ==
  (/\ pc = "done"
   /\ Len(rawLines) = 2
   /\ {rawLines[1].id, rawLines[2].id} = {1, 2}
   /\ Cardinality(AllCrossings) = 1)
  => \A q \in AllCrossings :
       LET p == CrossingPoint(rawLines[q[1]].segments[q[3]],
                              rawLines[q[2]].segments[q[4]])
           path2 == finalPaths[2].pathData
       IN /\ Cardinality(QCommands(path2)) = 1
          /\ \A k \in QCommands(path2) : QSpans(path2, k, p)
          /\ OnlyML(finalPaths[1].pathData)

\* C8 witness: connection 2 comes first in the list and jumps connection 1.
C8_Witness ==
  /\ pc = "done"
  /\ Len(rawLines) = 2
  /\ {rawLines[1].id, rawLines[2].id} = {1, 2}
  /\ Cardinality(AllCrossings) = 1
  /\ rawLines[1].id = 2
  /\ Cardinality(QCommands(finalPaths[2].pathData)) = 1

\* ---------------------------------------------------------------- C9
\* The points a line's segments run through, and a point sequence without
\* the points that repeat their predecessor (such pairs make no segment).
LinePoints(line) ==
  IF Len(line.segments) = 0 THEN <<>>
  ELSE <<line.segments[1].p1>> \o [k \in 1..Len(line.segments) |-> line.segments[k].p2]

RECURSIVE Dedup(_, _)
Dedup(points, k) ==
  IF k = 0 THEN <<>>
  ELSE IF k > 1 /\ points[k] = points[k - 1] THEN Dedup(points, k - 1)
  ELSE Append(Dedup(points, k - 1), points[k])

Through(ends, bends) ==
  LET all == <<ends.start, ends.startStandoff>> \o bends
             \o <<ends.endStandoff, ends.end>>
  IN Dedup(all, Len(all))

\* The last connection of the list that resolves and carries id.
LastWithId(id) ==
  LET ks == {k \in 1..Len(connections) : Resolves(connections[k]) /\ connections[k].id = id}
  IN connections[CHOOSE k \in ks : \A j \in ks : j <= k]

\* C9: a connection with a non-empty waypoints list runs through exactly
\* [grip, standoff, its waypoints in order, standoff, grip] and the output's
\* waypoints are the given ones; without waypoints the bends are the
\* router's result for the two standoffs.
C9_WaypointsOverride ==
  /\ JustBuilt =>
       LET e == LastEnds
           routed == smartRoute(e.startStandoff, e.endStandoff, items)
       IN IF Len(LastConn.waypoints) > 0
          THEN /\ LastBends = LastConn.waypoints
               /\ LinePoints(LastLine) = Through(e, LastConn.waypoints)
          ELSE /\ LastBends = routed
               /\ LinePoints(LastLine) = Through(e, routed)
  /\ pc = "done" =>
       \A id \in DOMAIN finalPaths :
         Len(LastWithId(id).waypoints) > 0
           => finalPaths[id].waypoints = LastWithId(id).waypoints

\* C9 witness: the pass returned the path of a connection with waypoints.
C9_Witness ==
  /\ pc = "done"
  /\ \E id \in DOMAIN finalPaths :
       /\ Len(LastWithId(id).waypoints) = 3
       /\ finalPaths[id].waypoints = LastWithId(id).waypoints
       /\ Len(finalPaths[id].pathData) >= 7

\* ---------------------------------------------------------------- C10
GripSide(item, gripIndex) == getClosestSide(item.grips[gripIndex + 1])

\* A stub leaves a left or right side horizontally, a top or bottom side
\* vertically.
Perpendicular(seg, side) ==
  IF side \in {"left", "right"} THEN IsHorizontal(seg) ELSE IsVertical(seg)

\* C10: every segment of a connection without user waypoints is
\* axis-aligned; its first and last segments are the stubs, perpendicular
\* to the side nearest the source and the target grip.
C10_Orthogonal ==
  JustRouted =>
    LET segs == LastLine.segments
        e == LastEnds
        source == items[FindItem(items, LastConn.sourceItemId)]
        target == items[FindItem(items, LastConn.targetItemId)]
    IN /\ \A k \in 1..Len(segs) : IsHorizontal(segs[k]) \/ IsVertical(segs[k])
       /\ Len(segs) >= 2
       /\ segs[1].p1 = e.start /\ segs[1].p2 = e.startStandoff
       /\ segs[Len(segs)].p1 = e.endStandoff /\ segs[Len(segs)].p2 = e.end
       /\ Perpendicular(segs[1], GripSide(source, LastConn.sourceGripIndex))
       /\ Perpendicular(segs[Len(segs)], GripSide(target, LastConn.targetGripIndex))

\* C10 witness: a routed dogleg between a top grip and a bottom grip.
C10_Witness ==
  /\ JustRouted
  /\ Len(LastBends) = 2
  /\ Len(LastLine.segments) = 5
  /\ GripSide(items[FindItem(items, LastConn.sourceItemId)], LastConn.sourceGripIndex) = "top"
  /\ IsVertical(LastLine.segments[1])

\* ---------------------------------------------------------------- C11
\* The connections that resolve, in list order: once pass 1 is over, the
\* l-th raw line is the line of the l-th of them.
Resolving == SelectSeq(connections, Resolves)

\* The corners of a path: where its M and its segment-closing L commands
\* lead (an L that opens a bridge, and the Q after it, lie inside a segment).
RECURSIVE Corners(_, _)
Corners(path, k) ==
  IF k > Len(path) THEN <<>>
  ELSE (IF path[k][1] = "Q" \/ (k < Len(path) /\ path[k + 1][1] = "Q")
        THEN <<>>
        ELSE <<Pt(path[k][2], path[k][3])>>) \o Corners(path, k + 1)

\* Pass 2 has just drawn line li - 1 and stored its entry.  Lines drawn
\* earlier are not touched again, so what holds of each line when it has
\* just been drawn holds of every line of the pass.
JustDrew == pc = "draw" /\ li > 1

\* Whether line l is the last drawn line so far that carries its id.
LastDrawnOfId(l) ==
  \A m \in (l + 1)..Len(drawnLines) : drawnLines[m].id # drawnLines[l].id

\* C11: the pathData of every resolvable connection is non-empty, starts
\* with its only M command, at the source grip point, goes on with L and Q
\* commands only and ends with an L to the target grip point; a pair of
\* equal points makes no segment (no two consecutive corners of the path are
\* equal); the stored entry has an endPoint.
C11_PathShape ==
  /\ pc \in {"draw", "done"} => Len(rawLines) = Len(Resolving)
  /\ JustDrew =>
       LET l == Len(drawnLines)
           conn == Resolving[l]
           e == ConnEnds(conn, items)
           path == drawnLines[l].pathData
           n == Len(path)
           corners == Corners(path, 1)
       IN /\ l = li - 1
          /\ drawnLines[l].id = conn.id
          /\ n >= 2
          /\ path[1] = <<"M", e.start.x, e.start.y>>
          /\ \A k \in 2..n : path[k][1] \in {"L", "Q"}
          /\ path[n] = <<"L", e.end.x, e.end.y>>
          /\ corners = LinePoints(rawLines[l])
          /\ \A k \in 1..(Len(corners) - 1) : corners[k] # corners[k + 1]
          /\ conn.id \in DOMAIN finalPaths
          /\ finalPaths[conn.id].pathData = path
          /\ finalPaths[conn.id].hasEndPoint
  /\ pc = "done" =>
       /\ Len(drawnLines) = Len(rawLines)
       /\ \A l \in 1..Len(drawnLines) :
            LastDrawnOfId(l) =>
              /\ finalPaths[drawnLines[l].id].pathData = drawnLines[l].pathData
              /\ finalPaths[drawnLines[l].id].hasEndPoint

\* C11 witness: the pass returned the path of a connection whose point
\* list held a pair of equal points, with a bridge on it.
C11_Witness ==
  /\ pc = "done"
  /\ \E l \in 1..Len(drawnLines) :
       LET conn == Resolving[l]
           path == drawnLines[l].pathData
       IN /\ LastDrawnOfId(l)
          /\ Len(conn.waypoints) = 0
          /\ Len(connectionWaypoints[conn.id]) + 4 > Len(Corners(path, 1))
          /\ QCommands(path) # {}
          /\ finalPaths[conn.id].pathData = path

\* ---------------------------------------------------------------- C12
\* C12: no step of a pass changes its inputs: the connections list, every
\* connection's waypoints, the items list and every item (position, size,
\* grips) are after each step what they were before it, so at the return
\* (and at a throw) they are what the caller handed in.
C12_InputsUnchanged ==
  [][items' = items /\ connections' = connections]_vars

\* C12 witness: the pass has returned the paths of a connection with user
\* waypoints and of a connection the router laid out.
C12_Witness ==
  /\ pc = "done"
  /\ \E k \in 1..Len(connections) :
       /\ Resolves(connections[k])
       /\ Len(connections[k].waypoints) > 0
       /\ connections[k].id \in DOMAIN finalPaths
  /\ \E k \in 1..Len(connections) :
       Resolves(connections[k]) /\ Len(connections[k].waypoints) = 0

\* ---------------------------------------------------------------- C13
\* The side named by the claim: the least of the distances left = x,
\* right = 100 - x, top = 100 - y, bottom = y, the first of left, right,
\* top, bottom among equals.
NearestSide(g) ==
  IF g.x <= 100 - g.x /\ g.x <= 100 - g.y /\ g.x <= g.y THEN "left"
  ELSE IF 100 - g.x <= 100 - g.y /\ 100 - g.x <= g.y THEN "right"
  ELSE IF 100 - g.y <= g.y THEN "top"
  ELSE "bottom"

\* The move of 20 units outward that the claim gives each side.
Outward(side) ==
  IF side = "left" THEN Pt(0 - 20, 0)
  ELSE IF side = "right" THEN Pt(20, 0)
  ELSE IF side = "top" THEN Pt(0, 0 - 20)
  ELSE Pt(0, 20)

\* C13: for every grip (x, y) of the percent grid, getClosestSide is the
\* side of least distance, ties going to left, right, top, bottom in that
\* order, and the stand-off of the line built from that grip is the grip
\* point moved 20 units outward along that side, the other coordinate
\* unchanged.
C13_ClosestSideStandoff ==
  JustBuilt =>
    LET source == items[FindItem(items, LastConn.sourceItemId)]
        g == source.grips[LastConn.sourceGripIndex + 1]
        stub == LastLine.segments[1]
    IN /\ getClosestSide(g) = NearestSide(g)
       /\ stub.p1 = getGripPosition(source, LastConn.sourceGripIndex)
       /\ stub.p2 = add(stub.p1, Outward(NearestSide(g)))
       /\ getStandoff(stub.p1, g) = stub.p2

\* C13 witness: the centre grip (50, 50), all four distances equal, leaves
\* its box to the left.
C13_Witness ==
  /\ JustBuilt
  /\ LET source == items[FindItem(items, LastConn.sourceItemId)]
         g == source.grips[LastConn.sourceGripIndex + 1]
         stub == LastLine.segments[1]
     IN /\ g = Grip(50, 50)
        /\ stub.p2 = Pt(stub.p1.x - 20, stub.p1.y)

\* ---------------------------------------------------------------- C14
DistinctIds(conns) ==
  \A j, k \in 1..Len(conns) : j # k => conns[j].id # conns[k].id

\* The orders of n list positions, and a list in one of these orders.
Perms(n) == {f \in [1..n -> 1..n] : \A j, k \in 1..n : j # k => f[j] # f[k]}

Permute(conns, f) == [k \in 1..Len(conns) |-> conns[f[k]]]

\* C14: with pairwise distinct connection ids, the pass on the same
\* connections in any other order of the list (and the same items) gives
\* every connection id the pathData the pass has returned: the same ids, the
\* same commands, the same bridges at the same places.
C14_OrderIndependent ==
  (pc = "done" /\ DistinctIds(connections)) =>
    \A f \in Perms(Len(connections)) :
      LET other == pathDataOf(Permute(connections, f), items)
      IN /\ DOMAIN other = DOMAIN finalPaths
         /\ \A id \in DOMAIN other : other[id] = finalPaths[id].pathData

\* C14 witness: three connections with distinct ids, the one of highest id
\* first in the list, one segment of which jumps both the others.
C14_Witness ==
  /\ pc = "done"
  /\ DistinctIds(connections)
  /\ Len(rawLines) = 3
  /\ rawLines[1].id = 3
  /\ \E k \in 1..Len(drawnLines[1].bridges) :
       /\ Len(drawnLines[1].bridges[k]) = 2
       /\ \A n \in 1..2 : drawnLines[1].bridges[k][n].drawn
  /\ Cardinality(QCommands(finalPaths[3].pathData)) >= 2

\* ---------------------------------------------------------------- C15
\* The centre of the bridge drawn by the Q command k of a path: its control
\* point, taken back onto the line from the bridge's start to its end.
QCenter(path, k) ==
  IF path[k - 1][3] = path[k][5]
  THEN Pt(path[k][2], path[k][5])
  ELSE Pt(path[k][4], path[k][3])

\* Segments a and b have a point in common.
Meet(a, b) ==
  /\ Max2(Min2(a.p1.x, a.p2.x), Min2(b.p1.x, b.p2.x))
       <= Min2(Max2(a.p1.x, a.p2.x), Max2(b.p1.x, b.p2.x))
  /\ Max2(Min2(a.p1.y, a.p2.y), Min2(b.p1.y, b.p2.y))
       <= Min2(Max2(a.p1.y, a.p2.y), Max2(b.p1.y, b.p2.y))

Parallel(a, b) == IsHorizontal(a) = IsHorizontal(b)

\* The common point of two perpendicular segments that meet is an end of
\* one of them.
MeetAtEnd(a, b) ==
  /\ Meet(a, b) /\ ~Parallel(a, b)
  /\ CrossingPoint(a, b) \in {a.p1, a.p2, b.p1, b.p2}

\* The common point lies inside both, but within 0.001 of an end of one.
MeetNearEnd(a, b) ==
  Meet(a, b) /\ ~Parallel(a, b) /\ ~MeetAtEnd(a, b) /\ ~TrulyCross(a, b)

\* How segments a and b touch without truly crossing: "end", "near" (the
\* tolerance band) or "along" (parallel with a point in common).
Touches(kind, a, b) ==
  IF kind = "end" THEN MeetAtEnd(a, b)
  ELSE IF kind = "near" THEN MeetNearEnd(a, b)
  ELSE Meet(a, b) /\ Parallel(a, b)

\* Line l touches, in the given way, a line of lower id.
TouchesLower(l, kind) ==
  \E m \in 1..Len(rawLines) :
    /\ rawLines[m].id < rawLines[l].id
    /\ \E a \in 1..Len(rawLines[l].segments) : \E b \in 1..Len(rawLines[m].segments) :
         Touches(kind, rawLines[l].segments[a], rawLines[m].segments[b])

\* The bridge of Q command k of line l's path sits where a segment of l
\* truly crosses a segment of line m.
BridgeIsFor(l, path, k, m) ==
  \E a \in 1..Len(rawLines[l].segments) : \E b \in 1..Len(rawLines[m].segments) :
    /\ TrulyCross(rawLines[l].segments[a], rawLines[m].segments[b])
    /\ CrossingPoint(rawLines[l].segments[a], rawLines[m].segments[b]) = QCenter(path, k)

\* C15: no bridge is drawn for two segments that only touch or are
\* parallel: every bridge of a path sits at a true crossing of one of the
\* line's segments with a segment of a connection of another id; where the
\* common point is an end of either segment (T-junction, shared corner), or
\* within 0.001 of one, or the segments are parallel or collinear, there is
\* no true crossing and so no bridge.
C15_NoBridgeForTouching ==
  pc \in {"draw", "done"} =>
    \A l \in 1..Len(drawnLines) :
      LET path == drawnLines[l].pathData
      IN \A k \in QCommands(path) :
           \E m \in 1..Len(rawLines) :
             rawLines[m].id # rawLines[l].id /\ BridgeIsFor(l, path, k, m)

\* C15 witness: a returned line that meets lines of lower id at an end of
\* a segment, inside the tolerance band and along a collinear stretch.
C15_Witness ==
  /\ pc = "done"
  /\ \E l \in 1..Len(drawnLines) :
       /\ TouchesLower(l, "end")
       /\ TouchesLower(l, "near")
       /\ TouchesLower(l, "along")

\* ---------------------------------------------------------------- C16
\* C16: segments of equal connection id are never bridged against each
\* other: every bridge of a path sits at a true crossing with a connection
\* of strictly lower id (not with the line itself, not with another line
\* of its id), and a line of the smallest id has only M and L commands.
C16_EqualIdsNotBridged ==
  pc \in {"draw", "done"} =>
    \A l \in 1..Len(drawnLines) :
      LET path == drawnLines[l].pathData
      IN /\ \A k \in QCommands(path) :
              \E m \in 1..Len(rawLines) :
                rawLines[m].id < rawLines[l].id /\ BridgeIsFor(l, path, k, m)
         /\ (\A m \in 1..Len(rawLines) : rawLines[l].id <= rawLines[m].id)
              => OnlyML(path)

\* Segments of lines l and m truly cross.
LinesCross(l, m) ==
  \E a \in 1..Len(rawLines[l].segments) : \E b \in 1..Len(rawLines[m].segments) :
    TrulyCross(rawLines[l].segments[a], rawLines[m].segments[b])

\* C16 witness: a returned line that crosses itself, crosses another line
\* of its own id and jumps a line of lower id.
C16_Witness ==
  /\ pc = "done"
  /\ \E l \in 1..Len(drawnLines) :
       /\ LinesCross(l, l)
       /\ \E m \in 1..Len(rawLines) :
            m # l /\ rawLines[m].id = rawLines[l].id /\ LinesCross(l, m)
       /\ QCommands(drawnLines[l].pathData) # {}

\* ---------------------------------------------------------------- C17
\* Where command k of a path leads.
CommandEnd(path, k) ==
  IF path[k][1] = "Q" THEN Pt(path[k][4], path[k][5]) ELSE Pt(path[k][2], path[k][3])

\* The way travelled by the commands of a path from the k-th on, each taken
\* from the end of the command before it straight to its own end.
RECURSIVE PathLength(_, _)
PathLength(path, k) ==
  IF k > Len(path) THEN 0
  ELSE LET a == CommandEnd(path, k - 1)
           b == CommandEnd(path, k)
       IN Abs(b.x - a.x) + Abs(b.y - a.y) + PathLength(path, k + 1)

RECURSIVE LineLength(_, _)
LineLength(segs, k) ==
  IF k > Len(segs) THEN 0 ELSE segs[k].len + LineLength(segs, k + 1)

\* The running position when the bridge loop reaches crossing n of a
\* segment: the end of the last bridge drawn before it, 0 if there is none.
RunningT(bs, n) ==
  LET before == {j \in 1..(n - 1) : bs[j].drawn}
  IN IF before = {} THEN 0
     ELSE bs[CHOOSE j \in before : \A i \in before : i <= j].endT

\* The bridges drawn on the segments of a line, as <<segment, crossing>>.
DrawnOn(bridges) ==
  UNION { { <<k, n>> : n \in {j \in 1..Len(bridges[k]) : bridges[k][j].drawn} } :
          k \in 1..Len(bridges) }

\* C17: along a segment the path never moves backwards and bridges never
\* overlap.  On the line just drawn, the crossings of a segment are met in
\* increasing distance; a drawn bridge has startT < endT within the segment and starts at or
\* after the end of the one before; a crossing with startT >= endT emits
\* nothing and the next one starts from the same running position; the
\* path has one Q per drawn bridge, closes each segment with an L to its
\* p2, and travels exactly the length of its segments.
C17_ForwardOnly ==
  JustDrew =>
    LET l == Len(drawnLines)
        path == drawnLines[l].pathData
        segs == rawLines[l].segments
        bridges == drawnLines[l].bridges
    IN /\ \A k \in 1..Len(segs) :
            LET bs == bridges[k]
            IN \A n \in 1..Len(bs) :
                 /\ n > 1 => bs[n - 1].centerT <= bs[n].centerT
                 /\ bs[n].drawn <=> bs[n].startT < bs[n].endT
                 /\ RunningT(bs, n) <= bs[n].startT
                 /\ bs[n].startT \in {RunningT(bs, n), bs[n].centerT - BRIDGE_SIZE}
                 /\ bs[n].drawn => 0 <= bs[n].startT /\ bs[n].endT <= segs[k].len
                 /\ \A j \in 1..(n - 1) :
                      (bs[j].drawn /\ bs[n].drawn) => bs[j].endT <= bs[n].startT
       /\ Cardinality(QCommands(path)) = Cardinality(DrawnOn(bridges))
       /\ Corners(path, 1) = LinePoints(rawLines[l])
       /\ PathLength(path, 2) = LineLength(segs, 1)

\* C17 witness: two bridges drawn on one segment, the second starting
\* where the first ends.
C17_Witness ==
  /\ pc = "done"
  /\ \E l \in 1..Len(drawnLines) : \E k \in 1..Len(drawnLines[l].bridges) :
       LET bs == drawnLines[l].bridges[k]
       IN /\ Len(bs) >= 2
          /\ bs[1].drawn /\ bs[2].drawn
          /\ bs[2].startT = bs[1].endT
          /\ Cardinality(QCommands(drawnLines[l].pathData)) >= 2

=============================================================================
